---- MODULE Spec2Model ----
(***************************************************************************)
(* Model of cmd/ctl/pkg/create/certificaterequest.go: the command          *)
(* "create certificaterequest".  Options.Run resolves one Certificate from *)
(* the given manifest, computes the request name, generates and encodes a  *)
(* private key, builds and signs a CSR (generateCSR), assembles the        *)
(* CertificateRequest (buildCertificateRequest) and creates it through the *)
(* client.  Every invocation of Run is a process with its own locals; the  *)
(* API server is the only state invocations share.                         *)
(***************************************************************************)
EXTENDS Integers, Sequences, FiniteSets, TLC

\* Largest number of objects the resolved manifest holds.
MaxInfos == 2
\* Number of distinct outputs one invocation can draw from the random source.
MaxSeed == 2

\* The invocations of Run that may be in flight together.
Invocations == {1, 2}

VARIABLES
  input,      \* per invocation: what the resource builder resolves (Run:120-141)
  run,        \* per invocation: the locals of Run, buildCertificateRequest, generateCSR
  heap,       \* per invocation: the Go maps reachable from crt and from the record
  log,        \* per invocation: the pipeline steps started, in order (history)
  apiServer   \* the CertificateRequests created through o.CMClient, in order

vars == <<input, run, heap, log, apiServer>>

----------------------------------------------------------------------------
(* Values *)

Nil == [nil |-> TRUE]

IsErr(v) == "err" \in DOMAIN v

Error(msg) == [err |-> msg]

\* Go maps over a finite key universe; a key that is not set maps to Absent.
CRPrivateKeyAnnotationKey == "cert-manager.io/private-key-secret-name"

CertificateNameKey == "cert-manager.io/certificate-name"

Absent == "<absent>"

AnnotationKeys == {"note", CRPrivateKeyAnnotationKey, CertificateNameKey}

LabelKeys == {"team"}

MapKeys == AnnotationKeys \cup LabelKeys

EmptyMap == [k \in MapKeys |-> Absent]

Keys(m) == {k \in MapKeys : m[k] # Absent}

MapsOver(keys, values) ==
  UNION {{[k \in MapKeys |-> IF k \in S THEN f[k] ELSE Absent] : f \in [S -> values]}
         : S \in SUBSET keys}

----------------------------------------------------------------------------
(* Inputs: the objects a manifest can hold *)

\* Duration, IssuerRef, IsCA and Usages of a Certificate, varied together.
Profiles ==
  { [Duration |-> "90d", IssuerRef |-> "ca-issuer", IsCA |-> FALSE,
     Usages |-> <<"server auth">>],
    [Duration |-> "1y", IssuerRef |-> "root-issuer", IsCA |-> TRUE,
     Usages |-> <<"cert sign", "crl sign">>] }

CertificateSpecs ==
  { [SecretName |-> "tls-secret", CommonName |-> cn, KeyAlgorithm |-> alg,
     KeySize |-> size, KeyEncoding |-> enc, Duration |-> pr.Duration,
     IssuerRef |-> pr.IssuerRef, IsCA |-> pr.IsCA, Usages |-> pr.Usages]
    : cn \in {"", "example.com"}, alg \in {"rsa", "ecdsa", "ed25519"},
      size \in {256, 384, 2048}, enc \in {"pkcs1", "pkcs8", "der"},
      pr \in Profiles }

Certificates ==
  { [Kind |-> "Certificate", Name |-> n, Namespace |-> ns, Annotations |-> a,
     Labels |-> l, Spec |-> s]
    : n \in {"web", "api"}, ns \in {"", "prod"},
      a \in MapsOver(AnnotationKeys, {"old"}),
      l \in MapsOver(LabelKeys, {"edge"}), s \in CertificateSpecs }

\* Objects that are no Certificate: one that converts to another type, one
\* that does not convert at all.
OtherObjects == {[Kind |-> "Issuer"], [Kind |-> "Unconvertible"]}

\* The Certificates used when two invocations run together, and as the
\* members of a manifest of several objects.
SmallCertificates ==
  { c \in Certificates :
      /\ c.Namespace = "" /\ c.Annotations = EmptyMap
      /\ c.Spec.KeySize = 2048 /\ c.Spec.KeyEncoding \in {"pkcs8", "der"}
      /\ c.Spec.IsCA = FALSE }

ManyInfos(objs) == UNION {[1..n -> objs] : n \in 2..MaxInfos}

\* What the builder resolves: an error of one of the three calls that can
\* fail before the objects are counted, or the list of objects.
LoadErrors == {"namespace", "builder", "infos"}

Inputs(single, many) ==
  {[load |-> e, infos |-> <<>>] : e \in LoadErrors}
    \cup {[load |-> "ok", infos |-> <<>>]}
    \cup {[load |-> "ok", infos |-> <<o>>] : o \in single}
    \cup {[load |-> "ok", infos |-> s] : s \in ManyInfos(many)}

cmdNamespace == "default"

----------------------------------------------------------------------------
(* The helpers Run calls: apiutil and pki of the same repository, and pem *)

\* apiutil.ComputeCertificateRequestName: the Certificate's name as prefix and
\* a hash of its spec.  The hash is taken to be free of collisions, so it is
\* the hashed content itself.  marshalOk: whether the encoding step succeeds.
ComputeCertificateRequestName(crt, marshalOk) ==
  IF marshalOk
    THEN [prefix |-> crt.Name, hash |-> crt.Spec]
    ELSE Error("HashingFailure")

\* The supported key algorithms and sizes.
SupportedKey(alg, size) ==
  (alg = "rsa" /\ size \in {2048}) \/ (alg = "ecdsa" /\ size \in {256, 384})

\* pki.GeneratePrivateKeyForCertificate: a key of the algorithm and size the
\* spec asks for, its secret part d taken from the random source.
GeneratePrivateKeyForCertificate(crt, rnd) ==
  IF ~SupportedKey(crt.Spec.KeyAlgorithm, crt.Spec.KeySize)
    THEN Error("UnsupportedAlgorithm")
    ELSE IF ~rnd.ok
      THEN Error("GenerationFailure")
      ELSE [alg |-> crt.Spec.KeyAlgorithm, size |-> crt.Spec.KeySize, d |-> rnd.bits]

OID(alg) == IF alg = "rsa" THEN "1.2.840.113549.1.1.1" ELSE "1.2.840.10045.2.1"

\* pki.EncodePrivateKey: the PEM block of the key.  PKCS#1 names the
\* algorithm in the block type, PKCS#8 inside the block.
EncodePrivateKey(key, keyEncoding) ==
  IF keyEncoding = "pkcs1"
    THEN [Type |-> IF key.alg = "rsa" THEN "RSA PRIVATE KEY" ELSE "EC PRIVATE KEY",
          Bytes |-> [params |-> key.size, secret |-> key.d]]
    ELSE IF keyEncoding = "pkcs8"
      THEN [Type |-> "PRIVATE KEY",
            Bytes |-> [algorithm |-> OID(key.alg),
                       key |-> [params |-> key.size, secret |-> key.d]]]
      ELSE Error("UnsupportedEncoding")

\* pki.DecodePrivateKeyBytes: the key of a PEM block, by the block's type.
DecodePrivateKeyBytes(pk) ==
  IF pk.Type = "RSA PRIVATE KEY"
    THEN [alg |-> "rsa", size |-> pk.Bytes.params, d |-> pk.Bytes.secret]
    ELSE IF pk.Type = "EC PRIVATE KEY"
      THEN [alg |-> "ecdsa", size |-> pk.Bytes.params, d |-> pk.Bytes.secret]
      ELSE IF pk.Type = "PRIVATE KEY"
        THEN [alg |-> IF pk.Bytes.algorithm = OID("rsa") THEN "rsa" ELSE "ecdsa",
              size |-> pk.Bytes.key.params, d |-> pk.Bytes.key.secret]
        ELSE Error("MalformedKeyData")

\* pki.GenerateCSR: the unsigned request, from the spec alone.
GenerateCSR(crt) ==
  IF crt.Spec.CommonName = ""
    THEN Error("InvalidSpec")
    ELSE [Subject |-> [CommonName |-> crt.Spec.CommonName],
          PublicKeyAlgorithm |-> crt.Spec.KeyAlgorithm]

PublicKey(key) == [alg |-> key.alg, size |-> key.size, pub |-> key.d]

SignatureAlgorithm(key) ==
  IF key.alg = "rsa" THEN "SHA256WithRSA" ELSE "ECDSAWithSHA256"

\* pki.EncodeCSR: the DER of the request signed by key; the signature is the
\* pair of the signing secret and the signed content.
EncodeCSR(csr, key) ==
  IF csr.PublicKeyAlgorithm # key.alg
    THEN Error("IncompatibleKeyAlgorithm")
    ELSE LET tbs == [Subject |-> csr.Subject, PublicKey |-> PublicKey(key)]
         IN  [tbs |-> tbs, SignatureAlgorithm |-> SignatureAlgorithm(key),
              Signature |-> [by |-> key.d, over |-> tbs]]

\* pem.EncodeToMemory and pem.Decode.
EncodeToMemory(block) ==
  [Begin |-> block.Type, Base64 |-> block.Bytes, End |-> block.Type]

PEMDecode(text) == [Type |-> text.Begin, Bytes |-> text.Base64]

\* The secret that signed a PEM-encoded request, and the public key in it.
SignedBy(csrPEM) == PEMDecode(csrPEM).Bytes.Signature.by

EmbeddedKey(csrPEM) == PEMDecode(csrPEM).Bytes.tbs.PublicKey

----------------------------------------------------------------------------
(* The state of one invocation *)

\* The steps of the pipeline in the order Run and generateCSR take them.
PipelineOrder ==
  << "ComputeName", "GenerateKey", "EncodeKey", "GenerateCSR", "DecodeKey",
     "EncodeCSR", "EncodePEM", "Assemble", "Create" >>

\* The locals before Run has assigned any of them.
InitialRun ==
  [pc |-> "Resolve", idx |-> 0, crt |-> Nil, expectedReqName |-> Nil,
   signer |-> Nil, keyData |-> Nil, csr |-> Nil, csrSigner |-> Nil,
   csrDER |-> Nil, csrPEM |-> Nil, req |-> Nil, answer |-> Nil, err |-> "nil"]

\* An invocation that was never started.
Idle == [InitialRun EXCEPT !.pc = "Idle"]

\* The choices the environment made for an invocation (history).
InitialLog == [steps |-> <<>>, marshal |-> "none", rnd |-> Nil, create |-> "none"]

\* What one invocation can draw from the random source: a failure of the
\* source, or bits no other draw gets (tagged by the invocation drawing).
Entropy(p) ==
  {[ok |-> FALSE, bits |-> <<p, 0>>]}
    \cup {[ok |-> TRUE, bits |-> <<p, n>>] : n \in 1..MaxSeed}

Returned(p) == run[p].pc \in {"Done", "Failed"}

\* The CertificateRequests invocation p created.
CreatedBy(p) == SelectSeq(apiServer, LAMBDA e : e.by = p)

\* Run returns err: nothing after the return runs.
Return(p, r, msg) == [r EXCEPT !.pc = "Failed", !.err = msg]

Started(p, step) == [log EXCEPT ![p].steps = Append(@, step)]

----------------------------------------------------------------------------
(* Options.Run *)

\* ResolveOutcome without the check of Run:146-148.
ResolveOutcomeNoMultiCheck(in) ==
  IF in.load = "namespace" THEN "namespace error"
  ELSE IF in.load = "builder" THEN "error here"
  ELSE IF in.load = "infos" THEN "error here instead"
  ELSE IF Len(in.infos) = 0 THEN "no object passed to create certificaterequest"
  ELSE "ok"

\* Run:120-148: the error that ends Run before the loop, or "ok".
ResolveOutcome(in) ==
  IF in.load = "namespace" THEN "namespace error"
  ELSE IF in.load = "builder" THEN "error here"
  ELSE IF in.load = "infos" THEN "error here instead"
  ELSE IF Len(in.infos) = 0 THEN "no object passed to create certificaterequest"
  ELSE IF Len(in.infos) > 1
    THEN "multiple objects passed to create certificaterequest"
  ELSE "ok"

Resolve(p) ==
  /\ run[p].pc = "Resolve"
  /\ LET out == ResolveOutcome(input[p])
     IN  run' = [run EXCEPT ![p] =
                   IF out = "ok" THEN [@ EXCEPT !.pc = "Convert", !.idx = 1]
                   ELSE Return(p, @, out)]
  /\ UNCHANGED <<input, heap, log, apiServer>>

\* Run:151-159: the object as a v1alpha2 Certificate; its maps live on the heap.
ConvertedCertificate(obj) ==
  [Name |-> obj.Name, Namespace |-> obj.Namespace,
   Annotations |-> "crt.Annotations", Labels |-> "crt.Labels", Spec |-> obj.Spec]

Convert(p) ==
  /\ run[p].pc = "Convert"
  /\ LET obj == input[p].infos[run[p].idx]
     IN  IF obj.Kind = "Unconvertible"
           THEN /\ run' = [run EXCEPT ![p] = Return(p, @,
                             "failed to convert certificate into version v1alpha2")]
                /\ heap' = heap
         ELSE IF obj.Kind # "Certificate"
           THEN /\ run' = [run EXCEPT ![p] = Return(p, @,
                             "decoded object is not a v1alpha2 Certificate")]
                /\ heap' = heap
         ELSE /\ run' = [run EXCEPT ![p] =
                          [@ EXCEPT !.pc = "ComputeName",
                                    !.crt = ConvertedCertificate(obj)]]
              /\ heap' = [heap EXCEPT ![p] =
                            ("crt.Annotations" :> obj.Annotations)
                              @@ ("crt.Labels" :> obj.Labels) @@ @]
  /\ UNCHANGED <<input, log, apiServer>>

\* Run:163-166.
ComputeName(p) ==
  /\ run[p].pc = "ComputeName"
  /\ \E marshalOk \in BOOLEAN :
       LET name == ComputeCertificateRequestName(run[p].crt, marshalOk)
       IN  /\ run' = [run EXCEPT ![p] =
                        IF IsErr(name)
                          THEN Return(p, @, "internal error hashing certificate spec")
                          ELSE [@ EXCEPT !.pc = "GenerateKey",
                                         !.expectedReqName = name]]
           /\ log' = [Started(p, "ComputeName") EXCEPT
                        ![p].marshal = IF marshalOk THEN "ok" ELSE "failed"]
  /\ UNCHANGED <<input, heap, apiServer>>

\* GenerateKey that tries again when the generation fails.
GenerateKeyRetry(p) ==
  /\ run[p].pc = "GenerateKey"
  /\ \E rnd \in Entropy(p) :
       LET key == GeneratePrivateKeyForCertificate(run[p].crt, rnd)
       IN  /\ run' = [run EXCEPT ![p] =
                        IF IsErr(key) THEN @
                        ELSE [@ EXCEPT !.pc = "EncodeKey", !.signer = key]]
           /\ log' = [Started(p, "GenerateKey") EXCEPT ![p].rnd = rnd]
  /\ UNCHANGED <<input, heap, apiServer>>

\* GenerateKey that derives the request name anew from the generated key.
GenerateKeyRenames(p) ==
  /\ run[p].pc = "GenerateKey"
  /\ \E rnd \in Entropy(p) :
       LET key == GeneratePrivateKeyForCertificate(run[p].crt, rnd)
       IN  /\ run' = [run EXCEPT ![p] =
                        IF IsErr(key)
                          THEN Return(p, @, "error when generating private key")
                          ELSE [@ EXCEPT !.pc = "EncodeKey", !.signer = key,
                                         !.expectedReqName =
                                            [prefix |-> run[p].crt.Name, hash |-> key]]]
           /\ log' = [Started(p, "GenerateKey") EXCEPT ![p].rnd = rnd]
  /\ UNCHANGED <<input, heap, apiServer>>

\* Run:168-171.
GenerateKey(p) ==
  /\ run[p].pc = "GenerateKey"
  /\ \E rnd \in Entropy(p) :
       LET key == GeneratePrivateKeyForCertificate(run[p].crt, rnd)
       IN  /\ run' = [run EXCEPT ![p] =
                        IF IsErr(key)
                          THEN Return(p, @, "error when generating private key")
                          ELSE [@ EXCEPT !.pc = "EncodeKey", !.signer = key]]
           /\ log' = [Started(p, "GenerateKey") EXCEPT ![p].rnd = rnd]
  /\ UNCHANGED <<input, heap, apiServer>>

\* Run:173-176.
EncodeKey(p) ==
  /\ run[p].pc = "EncodeKey"
  /\ LET data == EncodePrivateKey(run[p].signer, run[p].crt.Spec.KeyEncoding)
     IN  run' = [run EXCEPT ![p] =
                   IF IsErr(data)
                     THEN Return(p, @, "error when encoding private key")
                     ELSE [@ EXCEPT !.pc = "GenerateCSR", !.keyData = data]]
  /\ log' = Started(p, "EncodeKey")
  /\ UNCHANGED <<input, heap, apiServer>>

----------------------------------------------------------------------------
(* generateCSR *)

\* BuildCSR that drops the error of pki.GenerateCSR and goes on.
BuildCSRIgnoresError(p) ==
  /\ run[p].pc = "GenerateCSR"
  /\ LET csr == GenerateCSR(run[p].crt)
     IN  run' = [run EXCEPT ![p] =
                   [@ EXCEPT !.pc = "DecodeKey",
                             !.csr = IF IsErr(csr) THEN Nil ELSE csr]]
  /\ log' = Started(p, "GenerateCSR")
  /\ UNCHANGED <<input, heap, apiServer>>

\* generateCSR:228-231.  An error of generateCSR is returned as it is by
\* buildCertificateRequest (199) and by Run (180).
BuildCSR(p) ==
  /\ run[p].pc = "GenerateCSR"
  /\ LET csr == GenerateCSR(run[p].crt)
     IN  run' = [run EXCEPT ![p] =
                   IF IsErr(csr) THEN Return(p, @, csr.err)
                   ELSE [@ EXCEPT !.pc = "DecodeKey", !.csr = csr]]
  /\ log' = Started(p, "GenerateCSR")
  /\ UNCHANGED <<input, heap, apiServer>>

\* DecodeKey that generates a key of its own instead of decoding pk.
DecodeKeyFresh(p) ==
  /\ run[p].pc = "DecodeKey"
  /\ \E rnd \in {e \in Entropy(p) : e.ok} :
       run' = [run EXCEPT ![p] =
                 [@ EXCEPT !.pc = "EncodeCSR",
                           !.csrSigner =
                              GeneratePrivateKeyForCertificate(run[p].crt, rnd)]]
  /\ log' = Started(p, "DecodeKey")
  /\ UNCHANGED <<input, heap, apiServer>>

\* DecodeKey when the encoded key is kept in a variable of the package: it
\* decodes whatever an invocation stored there.
DecodeKeyShared(p) ==
  /\ run[p].pc = "DecodeKey"
  /\ \E q \in Invocations :
       /\ run[q].keyData # Nil
       /\ run' = [run EXCEPT ![p] =
                    [@ EXCEPT !.pc = "EncodeCSR",
                              !.csrSigner = DecodePrivateKeyBytes(run[q].keyData)]]
  /\ log' = Started(p, "DecodeKey")
  /\ UNCHANGED <<input, heap, apiServer>>

\* generateCSR:233-236.
DecodeKey(p) ==
  /\ run[p].pc = "DecodeKey"
  /\ LET signer == DecodePrivateKeyBytes(run[p].keyData)
     IN  run' = [run EXCEPT ![p] =
                   IF IsErr(signer) THEN Return(p, @, signer.err)
                   ELSE [@ EXCEPT !.pc = "EncodeCSR", !.csrSigner = signer]]
  /\ log' = Started(p, "DecodeKey")
  /\ UNCHANGED <<input, heap, apiServer>>

\* generateCSR:238-241.
SignCSR(p) ==
  /\ run[p].pc = "EncodeCSR"
  /\ LET csrDER == EncodeCSR(run[p].csr, run[p].csrSigner)
     IN  run' = [run EXCEPT ![p] =
                   IF IsErr(csrDER) THEN Return(p, @, csrDER.err)
                   ELSE [@ EXCEPT !.pc = "EncodePEM", !.csrDER = csrDER]]
  /\ log' = Started(p, "EncodeCSR")
  /\ UNCHANGED <<input, heap, apiServer>>

\* generateCSR:243-247.
EncodePEM(p) ==
  /\ run[p].pc = "EncodePEM"
  /\ run' = [run EXCEPT ![p] =
               [@ EXCEPT !.pc = "Assemble",
                         !.csrPEM = EncodeToMemory(
                            [Type |-> "CERTIFICATE REQUEST", Bytes |-> run[p].csrDER])]]
  /\ log' = Started(p, "EncodePEM")
  /\ UNCHANGED <<input, heap, apiServer>>

----------------------------------------------------------------------------
(* Options.buildCertificateRequest *)

\* InjectAnnotations that keeps an annotation the Certificate already has.
InjectAnnotationsKeepExisting(src, crt) ==
  [k \in MapKeys |->
     IF k \in Keys(src) THEN src[k]
     ELSE IF k = CRPrivateKeyAnnotationKey THEN crt.Spec.SecretName
     ELSE IF k = CertificateNameKey THEN crt.Name
     ELSE Absent]

\* buildCertificateRequest:203-207: the entries of the new map once the
\* Certificate's annotations are copied into it and the two keys are set.
InjectAnnotations(src, crt) ==
  [[k \in MapKeys |-> IF k \in Keys(src) THEN src[k] ELSE Absent]
     EXCEPT ![CRPrivateKeyAnnotationKey] = crt.Spec.SecretName,
            ![CertificateNameKey] = crt.Name]

\* MakeAnnotations without the copy: the two keys are set in the
\* Certificate's own map.
MakeAnnotationsAliased(h, crt) ==
  [ref |-> crt.Annotations,
   heap |-> [h EXCEPT ![crt.Annotations] = InjectAnnotations(@, crt)]]

\* buildCertificateRequest:202-207: the map the record's annotations refer to
\* and the heap once it is filled: a map of its own, made at 202.
MakeAnnotations(h, crt) ==
  [ref |-> "annotations",
   heap |-> ("annotations" :> InjectAnnotations(h[crt.Annotations], crt)) @@ h]

\* CertificateRequest that leaves IsCA at its zero value.
CertificateRequestDropsIsCA(crt, name, annotations, csrPEM) ==
  [Name |-> <<>>, GenerateName |-> <<crt.Name, "-">>,
   Annotations |-> annotations,
   Labels |-> crt.Labels,
   Spec |-> [CSRPEM |-> csrPEM, Duration |-> crt.Spec.Duration,
             IssuerRef |-> crt.Spec.IssuerRef, IsCA |-> FALSE,
             Usages |-> crt.Spec.Usages]]

\* buildCertificateRequest:209-222: the record.  Labels shares the
\* Certificate's map; ObjectMeta.Name is not set (the empty string, a
\* string being the sequence of its parts), and name is not used.
CertificateRequest(crt, name, annotations, csrPEM) ==
  [Name |-> <<>>, GenerateName |-> <<crt.Name, "-">>,
   Annotations |-> annotations,
   Labels |-> crt.Labels,
   Spec |-> [CSRPEM |-> csrPEM, Duration |-> crt.Spec.Duration,
             IssuerRef |-> crt.Spec.IssuerRef, IsCA |-> crt.Spec.IsCA,
             Usages |-> crt.Spec.Usages]]

\* buildCertificateRequest:202-224, and the assignment to req at Run:178.
Assemble(p) ==
  /\ run[p].pc = "Assemble"
  /\ LET made == MakeAnnotations(heap[p], run[p].crt)
     IN  /\ heap' = [heap EXCEPT ![p] = made.heap]
         /\ run' = [run EXCEPT ![p] =
                      [@ EXCEPT !.pc = "Create",
                                !.req = CertificateRequest(
                                   run[p].crt, run[p].expectedReqName,
                                   made.ref, run[p].csrPEM)]]
  /\ log' = Started(p, "Assemble")
  /\ UNCHANGED <<input, apiServer>>

----------------------------------------------------------------------------
(* Run: the submission *)

\* The object as it is sent: the maps by their entries.
Serialized(h, req) ==
  [req EXCEPT !.Annotations = h[req.Annotations], !.Labels = h[req.Labels]]

\* Run:183-186.
TargetNamespace(crt) == IF crt.Namespace = "" THEN cmdNamespace ELSE crt.Namespace

\* The object the server stores for a request sent without a name: the
\* name is generated from GenerateName.
ServerObject(sent) == [sent EXCEPT !.Name = sent.GenerateName \o <<"<generated>">>]

\* A CertificateRequest with every field at its zero value.
EmptyRequest ==
  [Name |-> <<>>, GenerateName |-> <<>>, Annotations |-> "nil", Labels |-> "nil",
   Spec |-> [CSRPEM |-> Nil, Duration |-> "", IssuerRef |-> "", IsCA |-> FALSE,
             Usages |-> <<>>]]

\* What the client can answer at Run:187: the stored object and no error,
\* or an error together with nil or with an empty object, as the client in
\* use returns it.  An error stores nothing.
Answers(sent) ==
  {[obj |-> ServerObject(sent), failed |-> FALSE]}
    \cup {[obj |-> o, failed |-> TRUE] : o \in {Nil, EmptyRequest}}

\* Run:183-187, the call: the namespace is chosen, the request is sent and
\* the server stores it or refuses it.  The answer is on its way back.
Create(p) ==
  /\ run[p].pc = "Create"
  /\ \E answer \in Answers(Serialized(heap[p], run[p].req)) :
       /\ log' = [Started(p, "Create") EXCEPT
                    ![p].create = IF answer.failed THEN "failed" ELSE "ok"]
       /\ apiServer' =
            IF answer.failed THEN apiServer
            ELSE Append(apiServer,
                   [by |-> p, ns |-> TargetNamespace(run[p].crt), obj |-> answer.obj])
       /\ run' = [run EXCEPT ![p] =
                    [@ EXCEPT !.pc = "CreateReturn", !.answer = answer]]
  /\ UNCHANGED <<input, heap>>

\* The object of an answer as a local: its maps are new maps on the heap.
AnswerObject(obj) ==
  IF obj = Nil \/ obj = EmptyRequest THEN obj
  ELSE [obj EXCEPT !.Annotations = "req.Annotations", !.Labels = "req.Labels"]

AnswerHeap(h, obj) ==
  IF obj = Nil \/ obj = EmptyRequest THEN h
  ELSE ("req.Annotations" :> obj.Annotations) @@ ("req.Labels" :> obj.Labels) @@ h

\* Run:187-193, the return of the call: req is assigned the client's answer;
\* an error ends Run, otherwise the loop goes on and Run returns nil after
\* the last object.
CreateReturn(p) ==
  /\ run[p].pc = "CreateReturn"
  /\ LET answer == run[p].answer
         r == [run[p] EXCEPT !.req = AnswerObject(answer.obj), !.answer = Nil]
     IN  /\ heap' = [heap EXCEPT ![p] = AnswerHeap(@, answer.obj)]
         /\ run' = [run EXCEPT ![p] =
                      IF answer.failed
                        THEN Return(p, r,
                               "error when creating CertifcateRequest through client")
                      ELSE IF r.idx < Len(input[p].infos)
                        THEN [r EXCEPT !.pc = "Convert", !.idx = @ + 1]
                        ELSE [r EXCEPT !.pc = "Done"]]
  /\ UNCHANGED <<input, log, apiServer>>

----------------------------------------------------------------------------
(* Specifications *)

\* The members of a manifest of several objects.
ManyObjects ==
  {c \in SmallCertificates :
     /\ c.Spec.KeyAlgorithm = "rsa" /\ c.Labels = EmptyMap
     /\ c.Spec.KeyEncoding = "pkcs8" /\ c.Spec.CommonName # ""}
    \cup OtherObjects

NoInput == [load |-> "ok", infos |-> <<>>]

InitState(in) ==
  /\ input = in
  /\ heap = [p \in Invocations |-> <<>>]
  /\ log = [p \in Invocations |-> InitialLog]
  /\ apiServer = <<>>

\* One invocation, on any input.
Init ==
  \E in \in Inputs(Certificates \cup OtherObjects, ManyObjects) :
    /\ InitState([p \in Invocations |-> IF p = 1 THEN in ELSE NoInput])
    /\ run = [p \in Invocations |-> IF p = 1 THEN InitialRun ELSE Idle]

\* Two invocations in flight together.
InitConc ==
  \E in \in [Invocations -> Inputs(SmallCertificates \cup OtherObjects, ManyObjects)] :
    /\ InitState(in)
    /\ run = [p \in Invocations |-> InitialRun]

Step(p) ==
  \/ Resolve(p)
  \/ Convert(p)
  \/ ComputeName(p)
  \/ GenerateKey(p)
  \/ EncodeKey(p)
  \/ BuildCSR(p)
  \/ DecodeKey(p)
  \/ SignCSR(p)
  \/ EncodePEM(p)
  \/ Assemble(p)
  \/ Create(p)
  \/ CreateReturn(p)

Next == \E p \in Invocations : Step(p)

Spec == Init /\ [][Next]_vars

SpecConc == InitConc /\ [][Next]_vars

----------------------------------------------------------------------------
(* Observations shared by the properties *)

Active == {p \in Invocations : run[p].pc # "Idle"}

\* The object the invocation is working on, as the manifest gave it.
Object(p) == input[p].infos[run[p].idx]

HasCertificate(p) == run[p].crt # Nil

StepIndex(step) == CHOOSE i \in 1..Len(PipelineOrder) : PipelineOrder[i] = step

IsPipelineStep(pc) == \E i \in 1..Len(PipelineOrder) : PipelineOrder[i] = pc

\* The local a step assigns when it succeeds.
StepResult(r, step) ==
  CASE step = "ComputeName" -> r.expectedReqName
    [] step = "GenerateKey" -> r.signer
    [] step = "EncodeKey" -> r.keyData
    [] step = "GenerateCSR" -> r.csr
    [] step = "DecodeKey" -> r.csrSigner
    [] step = "EncodeCSR" -> r.csrDER
    [] step = "EncodePEM" -> r.csrPEM
    [] step = "Assemble" -> r.req

\* The steps that assign a local, in order.
ValueSteps == SubSeq(PipelineOrder, 1, Len(PipelineOrder) - 1)

\* The step that returns each error of Run.
FailingStep(err) ==
  CASE err = "internal error hashing certificate spec" -> "ComputeName"
    [] err = "error when generating private key" -> "GenerateKey"
    [] err = "error when encoding private key" -> "EncodeKey"
    [] err = "InvalidSpec" -> "GenerateCSR"
    [] err = "MalformedKeyData" -> "DecodeKey"
    [] err = "IncompatibleKeyAlgorithm" -> "EncodeCSR"
    [] err = "error when creating CertifcateRequest through client" -> "Create"
    [] OTHER -> "none"

----------------------------------------------------------------------------
(* C1 *)

\* C1: in every invocation the steps started so far are an initial part of
\* the pipeline order (name, key, encoded key, unsigned CSR, decoded key,
\* signed DER, PEM, record, submission), so each step runs at most once and
\* none is retried; a step is started only when every earlier step of the
\* order has been started and has left its result (the record is held
\* until the client's answer replaces it in req); a finished invocation that
\* submitted has run them all, the submission last.
C1_StepsInOrderOnce ==
  \A p \in Active :
    LET steps == log[p].steps
    IN  /\ Len(steps) <= Len(PipelineOrder)
        /\ steps = SubSeq(PipelineOrder, 1, Len(steps))
        /\ IsPipelineStep(run[p].pc) =>
             steps = SubSeq(PipelineOrder, 1, StepIndex(run[p].pc) - 1)
        /\ \A k \in 1..Len(steps) :
             (/\ k < Len(steps) \/ run[p].pc # "Failed"
              /\ k <= Len(ValueSteps)
              /\ steps[k] = "Assemble" => run[p].pc \in {"Create", "CreateReturn"})
               => StepResult(run[p], steps[k]) # Nil
        /\ run[p].pc = "Done" => steps = PipelineOrder
        /\ CreatedBy(p) # <<>> => steps = PipelineOrder

C1_Witness ==
  /\ run[1].pc = "Done"
  /\ log[1].steps = PipelineOrder
  /\ Len(CreatedBy(1)) = 1
  /\ run[1].req.Name = <<"web", "-", "<generated>">>

----------------------------------------------------------------------------
(* C2 *)

\* The input makes a step of the pipeline fail.
KeyUnsupported(obj) == ~SupportedKey(obj.Spec.KeyAlgorithm, obj.Spec.KeySize)

EncodingUnsupported(obj) == obj.Spec.KeyEncoding \notin {"pkcs1", "pkcs8"}

SpecInvalid(obj) == obj.Spec.CommonName = ""

\* C2: a step that fails ends the invocation: Run has returned a non-nil
\* error, the error of the last step started; the failed step and every
\* later one left no result (no key, CSR or record, whole or partial), and
\* nothing was submitted.  A step whose failure the input or the environment
\* decides does fail: past key generation the key is supported and the
\* random source worked, past encoding the encoding is supported, past the
\* CSR build the spec is valid, and a refused submission never ends in Done.
C2_FailureIsTerminal ==
  \A p \in Active :
    LET r == run[p]
        steps == log[p].steps
    IN  /\ r.pc = "Failed" <=> r.err # "nil"
        /\ r.pc = "Failed" /\ steps # <<>> =>
             /\ FailingStep(r.err) = steps[Len(steps)]
             /\ \A k \in Len(steps)..Len(ValueSteps) :
                  StepResult(r, ValueSteps[k]) = Nil
             /\ CreatedBy(p) = <<>>
        /\ r.pc = "Failed" /\ steps = <<>> =>
             /\ \A k \in 1..Len(ValueSteps) : StepResult(r, ValueSteps[k]) = Nil
             /\ CreatedBy(p) = <<>>
        /\ log[p].marshal = "failed" => r.pc = "Failed"
        /\ log[p].create = "failed" => r.pc \in {"CreateReturn", "Failed"}
        /\ HasCertificate(p) =>
             /\ r.signer # Nil => ~KeyUnsupported(Object(p)) /\ log[p].rnd.ok
             /\ r.keyData # Nil => ~EncodingUnsupported(Object(p))
             /\ r.csr # Nil => ~SpecInvalid(Object(p))
             /\ (KeyUnsupported(Object(p)) \/ EncodingUnsupported(Object(p))
                   \/ SpecInvalid(Object(p)))
                  => r.req = Nil /\ r.pc # "Done" /\ CreatedBy(p) = <<>>
             /\ r.pc \in {"EncodeKey", "GenerateCSR", "DecodeKey", "EncodeCSR",
                          "EncodePEM", "Assemble", "Create", "CreateReturn",
                          "Done"}
                  => r.signer # Nil
             /\ r.pc \in {"GenerateCSR", "DecodeKey", "EncodeCSR", "EncodePEM",
                          "Assemble", "Create", "CreateReturn", "Done"}
                  => r.keyData # Nil
             /\ r.pc \in {"DecodeKey", "EncodeCSR", "EncodePEM", "Assemble",
                          "Create", "CreateReturn", "Done"}
                  => r.csr # Nil

\* An RSA key of 256 bits is not supported: the invocation ends at the key
\* generation.
C2_Witness ==
  /\ run[1].pc = "Failed"
  /\ HasCertificate(1)
  /\ Object(1).Spec.KeyAlgorithm = "rsa" /\ Object(1).Spec.KeySize = 256
  /\ log[1].steps = <<"ComputeName", "GenerateKey">>
  /\ run[1].err = "error when generating private key"
  /\ run[1].signer = Nil /\ run[1].req = Nil

----------------------------------------------------------------------------
(* C3 *)

\* C3: whenever an invocation holds a signed CSR (and so whenever it holds
\* a record or is Done), the key that signed it is the key generated in the
\* same invocation, got back by decoding the encoded key, and the public key
\* in the CSR is that key's public part; no record is built from a signing
\* key that differs from the generated one.
C3_SignedByGeneratedKey ==
  \A p \in Active :
    LET r == run[p]
    IN  /\ r.csrSigner # Nil => r.csrSigner = r.signer
        /\ r.csrDER # Nil =>
             /\ r.csrDER.Signature.by = r.signer.d
             /\ r.csrDER.tbs.PublicKey = PublicKey(r.signer)
        /\ r.csrPEM # Nil =>
             /\ SignedBy(r.csrPEM) = r.signer.d
             /\ EmbeddedKey(r.csrPEM) = PublicKey(r.signer)
        /\ r.pc = "Create" =>
             /\ SignedBy(r.req.Spec.CSRPEM) = r.signer.d
             /\ EmbeddedKey(r.req.Spec.CSRPEM) = PublicKey(r.signer)
        /\ \A i \in 1..Len(CreatedBy(p)) :
             SignedBy(CreatedBy(p)[i].obj.Spec.CSRPEM) = r.signer.d

\* An ECDSA key encoded as PKCS#8 signed the CSR of a finished invocation.
C3_Witness ==
  /\ run[1].pc = "Done"
  /\ run[1].signer.alg = "ecdsa"
  /\ Object(1).Spec.KeyEncoding = "pkcs8"
  /\ run[1].signer.d = <<1, 2>>
  /\ SignedBy(CreatedBy(1)[1].obj.Spec.CSRPEM) = <<1, 2>>

----------------------------------------------------------------------------
(* C4 *)

\* Another request name than the one computed.
OtherName(name) == [name EXCEPT !.prefix = <<"not", @>>]

\* C4: the record depends on the name given to buildCertificateRequest:
\* with another name and everything else the same, the record differs.
C4_NameIsMerged ==
  \A p \in Active :
    run[p].pc = "Create" =>
      CertificateRequest(run[p].crt, OtherName(run[p].expectedReqName),
                         run[p].req.Annotations, run[p].csrPEM)
        # run[p].req

----------------------------------------------------------------------------
(* C5 *)

\* What the annotations a of a record made from obj have to be.
C5_AnnotationsOf(a, obj) ==
  /\ a[CRPrivateKeyAnnotationKey] = obj.Spec.SecretName
  /\ a[CertificateNameKey] = obj.Name
  /\ \A k \in Keys(obj.Annotations) \ {CRPrivateKeyAnnotationKey, CertificateNameKey} :
       a[k] = obj.Annotations[k]
  /\ Keys(a) = Keys(obj.Annotations) \cup {CRPrivateKeyAnnotationKey, CertificateNameKey}

\* C5: the annotations of an assembled record are the Certificate's
\* annotations and the two injected keys: the private-key key maps to the
\* spec's secret name, the certificate-name key to the Certificate's name
\* (also when the Certificate carries one of them), every other key of the
\* Certificate keeps its value, and there is no further key.  The same holds
\* of the annotations of the object submitted.
C5_Annotations ==
  \A p \in Active :
    /\ run[p].pc = "Create" =>
         C5_AnnotationsOf(heap[p][run[p].req.Annotations], Object(p))
    /\ \A i \in 1..Len(CreatedBy(p)) :
         C5_AnnotationsOf(CreatedBy(p)[i].obj.Annotations, input[p].infos[i])

\* The Certificate carries a note and a stale private-key annotation; the
\* record keeps the note and holds the injected values.
C5_Witness ==
  /\ run[1].pc = "Create"
  /\ Keys(Object(1).Annotations) = {"note", CRPrivateKeyAnnotationKey}
  /\ Object(1).Annotations[CRPrivateKeyAnnotationKey] = "old"
  /\ heap[1][run[1].req.Annotations][CRPrivateKeyAnnotationKey] = "tls-secret"
  /\ heap[1][run[1].req.Annotations][CertificateNameKey] = "web"
  /\ heap[1][run[1].req.Annotations]["note"] = "old"

----------------------------------------------------------------------------
(* C6 *)

\* C6: in an assembled record GenerateName is the Certificate's name
\* followed by "-", the labels are the Certificate's labels, Duration,
\* IssuerRef, IsCA and Usages are those of the Certificate's spec, and CSRPEM
\* is the PEM of the DER the signing step of the same invocation produced.
C6_RecordFields ==
  \A p \in Active :
    run[p].pc = "Create" =>
      LET req == run[p].req
          obj == Object(p)
      IN  /\ req.GenerateName = <<obj.Name, "-">>
          /\ heap[p][req.Labels] = obj.Labels
          /\ req.Spec.Duration = obj.Spec.Duration
          /\ req.Spec.IssuerRef = obj.Spec.IssuerRef
          /\ req.Spec.IsCA = obj.Spec.IsCA
          /\ req.Spec.Usages = obj.Spec.Usages
          /\ req.Spec.CSRPEM = run[p].csrPEM
          /\ PEMDecode(req.Spec.CSRPEM) =
               [Type |-> "CERTIFICATE REQUEST", Bytes |-> run[p].csrDER]
          /\ run[p].csrDER = EncodeCSR(run[p].csr, run[p].csrSigner)

\* The record of a CA Certificate with a label.
C6_Witness ==
  /\ run[1].pc = "Create"
  /\ run[1].req.Name = <<>>
  /\ Object(1).Spec.IsCA /\ run[1].req.Spec.IsCA
  /\ run[1].req.Spec.Duration = "1y"
  /\ run[1].req.GenerateName = <<"api", "-">>
  /\ heap[1][run[1].req.Labels]["team"] = "edge"

----------------------------------------------------------------------------
(* C7 *)

\* The fields of a Certificate that decide what is issued: its name and spec.
IssuanceRelevant(obj) == [Name |-> obj.Name, Spec |-> obj.Spec]

\* C7: the request name an invocation holds is, in every state after it
\* was computed, the name of its Certificate's issuance-relevant fields: it
\* does not depend on the labels or annotations, on the generated key or on
\* any later step, so two invocations whose Certificates agree on those
\* fields hold the same name.
C7_NameIsPure ==
  \A p \in Active :
    run[p].expectedReqName # Nil =>
      /\ run[p].expectedReqName =
           [prefix |-> IssuanceRelevant(Object(p)).Name,
            hash |-> IssuanceRelevant(Object(p)).Spec]
      /\ \A q \in Active :
           (/\ run[q].expectedReqName # Nil
            /\ IssuanceRelevant(Object(p)) = IssuanceRelevant(Object(q)))
             => run[p].expectedReqName = run[q].expectedReqName

\* Two finished invocations on Certificates that differ in a label only,
\* with different keys, hold the same name.
C7_Witness ==
  /\ run[1].pc = "Done" /\ run[2].pc = "Done"
  /\ IssuanceRelevant(Object(1)) = IssuanceRelevant(Object(2))
  /\ Object(1).Labels # Object(2).Labels
  /\ run[1].signer # run[2].signer
  /\ run[1].expectedReqName = run[2].expectedReqName

----------------------------------------------------------------------------
(* C8 *)

\* What Run has done when it returned: its error, and what it created.
Outcome(p) ==
  [err |-> run[p].err,
   created |-> [i \in 1..Len(CreatedBy(p)) |->
                  [ns |-> CreatedBy(p)[i].ns, obj |-> CreatedBy(p)[i].obj]]]

\* The outcome of Run alone on input in, with the choices l of the
\* environment (the marshalling, the random source, the client's answer).
Alone(in, l) ==
  LET obj == in.infos[1]
      crt == ConvertedCertificate(obj)
      name == ComputeCertificateRequestName(crt, l.marshal = "ok")
      signer == GeneratePrivateKeyForCertificate(crt, l.rnd)
      keyData == EncodePrivateKey(signer, crt.Spec.KeyEncoding)
      csr == GenerateCSR(crt)
      csrSigner == DecodePrivateKeyBytes(keyData)
      csrDER == EncodeCSR(csr, csrSigner)
      csrPEM == EncodeToMemory([Type |-> "CERTIFICATE REQUEST", Bytes |-> csrDER])
      req == [Name |-> <<>>, GenerateName |-> <<obj.Name, "-">>,
              Annotations |-> InjectAnnotations(obj.Annotations, crt),
              Labels |-> obj.Labels,
              Spec |-> [CSRPEM |-> csrPEM, Duration |-> obj.Spec.Duration,
                        IssuerRef |-> obj.Spec.IssuerRef, IsCA |-> obj.Spec.IsCA,
                        Usages |-> obj.Spec.Usages]]
      Failure(msg) == [err |-> msg, created |-> <<>>]
  IN  IF ResolveOutcome(in) # "ok" THEN Failure(ResolveOutcome(in))
      ELSE IF obj.Kind = "Unconvertible"
        THEN Failure("failed to convert certificate into version v1alpha2")
      ELSE IF obj.Kind # "Certificate"
        THEN Failure("decoded object is not a v1alpha2 Certificate")
      ELSE IF IsErr(name) THEN Failure("internal error hashing certificate spec")
      ELSE IF IsErr(signer) THEN Failure("error when generating private key")
      ELSE IF IsErr(keyData) THEN Failure("error when encoding private key")
      ELSE IF IsErr(csr) THEN Failure(csr.err)
      ELSE IF IsErr(csrSigner) THEN Failure(csrSigner.err)
      ELSE IF IsErr(csrDER) THEN Failure(csrDER.err)
      ELSE IF l.create # "ok"
        THEN Failure("error when creating CertifcateRequest through client")
      ELSE [err |-> "nil",
            created |-> <<[ns |-> TargetNamespace(crt), obj |-> ServerObject(req)]>>]

\* The invocation whose random draw a key secret came from.
DrawnBy(d) == d[1]

\* The key secrets an invocation holds in its locals.
SecretsHeld(p) ==
  LET r == run[p]
  IN  (IF r.signer # Nil THEN {r.signer.d} ELSE {})
        \cup (IF r.keyData # Nil THEN {DecodePrivateKeyBytes(r.keyData).d} ELSE {})
        \cup (IF r.csrSigner # Nil THEN {r.csrSigner.d} ELSE {})
        \cup (IF r.csrDER # Nil THEN {r.csrDER.Signature.by} ELSE {})

\* An invocation that returned has the outcome of Run alone, and every key
\* secret it holds or submitted under comes from its own draws.
C8_Isolated ==
  \A p \in Active :
    /\ Returned(p) => Outcome(p) = Alone(input[p], log[p])
    /\ \A d \in SecretsHeld(p) : DrawnBy(d) = p
    /\ \A i \in 1..Len(CreatedBy(p)) :
         DrawnBy(SignedBy(CreatedBy(p)[i].obj.Spec.CSRPEM)) = p

\* A step changes the locals, the heap and the history of one invocation at
\* most, and the API server by the entry that invocation creates, if at all.
C8_StepIsLocal ==
  \E p \in Invocations :
    /\ \A q \in Invocations \ {p} :
         run'[q] = run[q] /\ heap'[q] = heap[q] /\ log'[q] = log[q]
    /\ input' = input
    /\ \/ apiServer' = apiServer
       \/ /\ run[p].pc = "Create"
          /\ Len(apiServer') = Len(apiServer) + 1
          /\ SubSeq(apiServer', 1, Len(apiServer)) = apiServer
          /\ apiServer'[Len(apiServer')].by = p

\* C8: with two invocations in flight, in every interleaving: an invocation
\* that returned has the outcome (its error, the request it created) that
\* Run alone has on its input; every step changes the state of the invocation
\* taking it only, the created request being all that reaches the API
\* server; the key secrets an invocation holds, and the key that signed the
\* CSR it submits, come from its own draws of the random source.
C8_NoInterference == [](C8_Isolated) /\ [][C8_StepIsLocal]_vars

\* Both invocations created their request, the second one first, each
\* signed by its own key.
C8_Witness ==
  /\ run[1].pc = "Done" /\ run[2].pc = "Done"
  /\ Len(apiServer) = 2
  /\ apiServer[1].by = 2 /\ apiServer[2].by = 1
  /\ DrawnBy(SignedBy(apiServer[1].obj.Spec.CSRPEM)) = 2
  /\ DrawnBy(SignedBy(apiServer[2].obj.Spec.CSRPEM)) = 1

----------------------------------------------------------------------------
(* C9 *)

\* The positions of Run inside buildCertificateRequest and generateCSR, and
\* the one right after buildCertificateRequest returned its record.
Building == {"GenerateCSR", "DecodeKey", "EncodeCSR", "EncodePEM", "Assemble"}

\* C9: while and after buildCertificateRequest and generateCSR run, the
\* Certificate is the one converted from the input: its fields and the
\* entries of its annotations and labels maps are unchanged (the record's
\* annotations are a map of their own, so the injected keys are not in the
\* Certificate's map unless the input had them); nothing has been created on
\* the API server when buildCertificateRequest returns, and an error leaves
\* no record.
C9_BuildIsPure ==
  \A p \in Active :
    HasCertificate(p) =>
      /\ run[p].crt = ConvertedCertificate(Object(p))
      /\ heap[p][run[p].crt.Annotations] = Object(p).Annotations
      /\ heap[p][run[p].crt.Labels] = Object(p).Labels
      /\ run[p].pc \in Building \cup {"Create"} => CreatedBy(p) = <<>>
      /\ run[p].pc = "Create" =>
           /\ run[p].req.Annotations # run[p].crt.Annotations
           /\ DOMAIN heap[p] = {"crt.Annotations", "crt.Labels", "annotations"}
      /\ run[p].pc = "Failed" /\ log[p].create = "none" => run[p].req = Nil

\* A record is assembled from a Certificate without annotations: the record
\* has the two injected keys, the Certificate's map is still empty.
C9_Witness ==
  /\ run[1].pc = "Create"
  /\ Object(1).Annotations = EmptyMap
  /\ heap[1][run[1].crt.Annotations] = EmptyMap
  /\ Keys(heap[1][run[1].req.Annotations]) =
       {CRPrivateKeyAnnotationKey, CertificateNameKey}
  /\ apiServer = <<>>

----------------------------------------------------------------------------
(* C10 *)

\* C10: an invocation whose manifest resolves to no object or to more than
\* one never gets past the count: it has no Certificate, started no step of
\* the pipeline and created nothing, and once it returned it returned an
\* error.  Every invocation creates at most one CertificateRequest, and only
\* the record it assembled before.
C10_OneObjectOneRequest ==
  \A p \in Active :
    /\ Len(input[p].infos) # 1 =>
         /\ run[p].pc \in {"Resolve", "Failed"}
         /\ ~HasCertificate(p)
         /\ log[p].steps = <<>>
         /\ CreatedBy(p) = <<>>
         /\ Returned(p) => run[p].err # "nil"
    /\ Len(CreatedBy(p)) <= 1
    /\ CreatedBy(p) # <<>> =>
         /\ run[p].csrPEM # Nil
         /\ CreatedBy(p)[1].obj.Spec.CSRPEM = run[p].csrPEM
         /\ CreatedBy(p)[1].obj.GenerateName = <<Object(p).Name, "-">>
         /\ \E k \in 1..Len(log[p].steps) : log[p].steps[k] = "Assemble"

\* A manifest of two objects is refused before anything is done.
C10_Witness ==
  /\ Len(input[1].infos) = 2
  /\ run[1].pc = "Failed"
  /\ run[1].err = "multiple objects passed to create certificaterequest"
  /\ log[1].steps = <<>>
  /\ apiServer = <<>>

====
